---- MODULE Spec2Model ----
(***************************************************************************)
(* Request/response orchestration of the dashboard view                    *)
(* (DashboardComponent + FileProcessingService + AuthService).             *)
(*                                                                         *)
(* dash  : the fields of DashboardComponent ("this")                       *)
(* reqs  : one record per Observable the component has subscribed to, in   *)
(*         subscription order (a request's id is its index)                *)
(* sys   : what lives outside the component: the dashboard view's          *)
(*         lifecycle, AuthService's session flag, the router's navigations *)
(* hist  : the ordered list of what the last handler did (its entry and    *)
(*         its external effects), the response or error it was handed, the *)
(*         request body it posted, the request the countdown is armed for  *)
(*         and the ticks delivered since then                              *)
(***************************************************************************)
EXTENDS Integers, Sequences, FiniteSets, TLC

VARIABLES dash, reqs, sys, hist

vars == <<dash, reqs, sys, hist>>

(***************************************************************************)
(* Program constants and enumerations                                      *)
(***************************************************************************)
TIMEOUT_SECONDS == 60
IDLE_TIMEOUT_SECONDS == 300

TransactionType == {"ORDER", "ASN", "GETSCHEMA", "ERRORRESPONSE", "ERRORTIMEOUT"}
OrderType == {"LTL", "PARCEL"}
FormatType == {"EDI", "JSON"}
ResponseType == {"ACK", "SHIPCONFIRM", "RECEIPT", "ORDER", "ASN", "ITEM"}

orderResponseTypes == <<"ACK", "SHIPCONFIRM">>
asnResponseTypes == <<"ACK", "RECEIPT">>
itemResponseTypes == <<"ACK">>
getSchemaResponseTypes == <<"ASN", "ORDER", "SHIPCONFIRM", "RECEIPT", "ITEM">>

(***************************************************************************)
(* Bounds of the model and the inputs drawn from them                      *)
(***************************************************************************)
MaxRequests == 2
MaxItems == 2
MaxSubmissions == 1
\* downloads followed, by click or by timer
MaxDownloads == 3
\* the idle monitor is followed for MaxClock milliseconds, with activity
\* events in the first ActivityHorizon milliseconds
MaxClock == 303000
ActivityHorizon == 2000

NoRequest == 0
NoFile == "null"
NoUUID == "null"
NoMessage == <<>>
\* the value of an absent optional property or parameter
Undefined == "undefined"

Files == {"f1", "f2"}
\* the bytes of each file: f1 holds one byte, f2 is an empty file
FileBytes == ("f1" :> <<65>>) @@ ("f2" :> <<>>)
UUIDPool == <<"u1", "u2", "u3", "u4">>
AllItems == <<"a", "b", "c", "d">>
Responses == {SubSeq(AllItems, 1, n) : n \in 0..MaxItems}
HttpErrors == {"Unable to connect to the server. Please check your internet connection."}

Range(s) == {s[i] : i \in DOMAIN s}

(***************************************************************************)
(* A handler runs on a "world" w = [d, r, s, log, response]: the           *)
(* component's fields, the subscriptions, the surroundings, the handler's  *)
(* entry and external effects so far, in the order the code produces them  *)
(* (a handler's entry is logged with the request the component held, an    *)
(* expiry of the countdown with the ordinal of the tick that caused it),   *)
(* the response handed to a next handler, the error handed to an error     *)
(* handler and the request body handed to http.post.                       *)
(***************************************************************************)
World == [d |-> dash, r |-> reqs, s |-> sys, log |-> <<>>, response |-> <<>>,
          error |-> <<>>, envelope |-> <<>>]

Step(e, arg) == [e |-> e, arg |-> arg]

Logged(w, e, arg) == [w EXCEPT !.log = Append(@, Step(e, arg))]

\* Subscription.unsubscribe() of request id.  getSchema returns the HttpClient
\* observable itself, so unsubscribing aborts the call; processFile returns
\* new Observable(observer => {...}) whose subscriber function returns no
\* teardown, so the FileReader and the inner http.post subscription live on.
Unsubscribe(w, id) ==
    IF w.r[id].closed THEN w
    ELSE LET q == w.r[id]
             aborts == q.path = "getSchema" /\ q.http = "outstanding"
             q2 == [q EXCEPT !.closed = TRUE,
                             !.http = IF aborts THEN "aborted" ELSE @]
             w2 == Logged([w EXCEPT !.r[id] = q2], "unsubscribe", id)
         IN IF aborts THEN Logged(w2, "abort", id) ELSE w2

\* if (this.currentRequest) { this.currentRequest.unsubscribe(); this.currentRequest = null; }
dropCurrentRequest_KeepsSubscription(w) ==
    [w EXCEPT !.d.currentRequest = NoRequest]
dropCurrentRequest(w) ==
    IF w.d.currentRequest # NoRequest
    THEN [Unsubscribe(w, w.d.currentRequest) EXCEPT !.d.currentRequest = NoRequest]
    ELSE w

stopCountdown(w) ==
    IF w.d.countdownSubscription
    THEN [w EXCEPT !.d.countdownSubscription = FALSE]
    ELSE w

stopIdleTimer(w) ==
    IF w.d.idleTimerSubscription
    THEN [w EXCEPT !.d.idleTimerSubscription = FALSE]
    ELSE w

clearOutputState_KeepsFlag(w) ==
    [w EXCEPT !.d.errorMessage = NoMessage,
              !.d.processedResults = <<>>,
              !.d.currentUUID = NoUUID]
clearOutputState(w) ==
    [w EXCEPT !.d.errorMessage = NoMessage,
              !.d.processedResults = <<>>,
              !.d.isTimeoutError = FALSE,
              !.d.currentUUID = NoUUID]

startCountdown(w) ==
    [stopCountdown([w EXCEPT !.d.remainingSeconds = TIMEOUT_SECONDS])
        EXCEPT !.d.countdownSubscription = TRUE]

uuidSuffix(uuid) == IF uuid # NoUUID THEN <<" (UUID=", uuid, ")">> ELSE <<>>

timeoutMessage(uuid) ==
    <<"Request timed out. The server did not respond within ",
      ToString(TIMEOUT_SECONDS),
      " seconds. Please try again.">> \o uuidSuffix(uuid)

handleCountdownTimeout_KeepsProcessing(w) ==
    LET w1 == dropCurrentRequest(stopCountdown(Logged(w, "timeout", w.d.currentRequest)))
    IN [w1 EXCEPT !.d.errorMessage = timeoutMessage(w1.d.currentUUID),
                  !.d.isTimeoutError = TRUE,
                  !.d.remainingSeconds = TIMEOUT_SECONDS]
handleCountdownTimeout_KeepsSeconds(w) ==
    LET w1 == dropCurrentRequest(stopCountdown(Logged(w, "timeout", w.d.currentRequest)))
    IN [w1 EXCEPT !.d.errorMessage = timeoutMessage(w1.d.currentUUID),
                  !.d.isTimeoutError = TRUE,
                  !.d.isProcessing = FALSE]
handleCountdownTimeout_KeepsRequest(w) ==
    LET w1 == stopCountdown(Logged(w, "timeout", w.d.currentRequest))
    IN [w1 EXCEPT !.d.errorMessage = timeoutMessage(w1.d.currentUUID),
                  !.d.isTimeoutError = TRUE,
                  !.d.isProcessing = FALSE,
                  !.d.remainingSeconds = TIMEOUT_SECONDS]
handleCountdownTimeout(w) ==
    LET w1 == dropCurrentRequest(stopCountdown(Logged(w, "timeout", w.d.currentRequest)))
    IN [w1 EXCEPT !.d.errorMessage = timeoutMessage(w1.d.currentUUID),
                  !.d.isTimeoutError = TRUE,
                  !.d.isProcessing = FALSE,
                  !.d.remainingSeconds = TIMEOUT_SECONDS]

resetForNextRequest_KeepsCountdown(w) ==
    dropCurrentRequest([w EXCEPT !.d.isProcessing = FALSE,
                                 !.d.remainingSeconds = TIMEOUT_SECONDS])
resetForNextRequest(w) ==
    LET w1 == stopCountdown([w EXCEPT !.d.isProcessing = FALSE])
    IN dropCurrentRequest([w1 EXCEPT !.d.remainingSeconds = TIMEOUT_SECONDS])

cancelRequest_KeepsCountdown(w) ==
    LET w1 == dropCurrentRequest(Logged(w, "cancelRequest", w.d.currentRequest))
    IN [w1 EXCEPT !.d.isProcessing = FALSE,
                  !.d.remainingSeconds = TIMEOUT_SECONDS,
                  !.d.currentUUID = NoUUID]
cancelRequest_KeepsRequest(w) ==
    LET w1 == stopCountdown(Logged(w, "cancelRequest", w.d.currentRequest))
    IN [w1 EXCEPT !.d.isProcessing = FALSE,
                  !.d.remainingSeconds = TIMEOUT_SECONDS,
                  !.d.currentUUID = NoUUID]
cancelRequest(w) ==
    LET w1 == dropCurrentRequest(stopCountdown(Logged(w, "cancelRequest", w.d.currentRequest)))
    IN [w1 EXCEPT !.d.isProcessing = FALSE,
                  !.d.remainingSeconds = TIMEOUT_SECONDS,
                  !.d.currentUUID = NoUUID]

handleRequestError_ClearsFile(w, error) ==
    LET suffix == uuidSuffix(w.d.currentUUID)
        w1 == IF error.timeout
              THEN [w EXCEPT !.d.errorMessage = timeoutMessage(w.d.currentUUID),
                             !.d.isTimeoutError = TRUE]
              ELSE [w EXCEPT !.d.errorMessage =
                                 <<IF error.message # ""
                                   THEN error.message
                                   ELSE "Processing failed. Please try again.">>
                                 \o suffix,
                             !.d.isTimeoutError = FALSE]
    IN resetForNextRequest([w1 EXCEPT !.d.selectedFile = NoFile])
handleRequestError_NoSuffix(w, error) ==
    LET w1 == IF error.timeout
              THEN [w EXCEPT !.d.errorMessage = timeoutMessage(w.d.currentUUID),
                             !.d.isTimeoutError = TRUE]
              ELSE [w EXCEPT !.d.errorMessage =
                                 <<IF error.message # ""
                                   THEN error.message
                                   ELSE "Processing failed. Please try again.">>,
                             !.d.isTimeoutError = FALSE]
    IN resetForNextRequest(w1)
handleRequestError_TransportMessage(w, error) ==
    LET suffix == uuidSuffix(w.d.currentUUID)
        w1 == [w EXCEPT !.d.errorMessage =
                            <<IF error.message # ""
                              THEN error.message
                              ELSE "Processing failed. Please try again.">>
                            \o suffix,
                        !.d.isTimeoutError = error.timeout]
    IN resetForNextRequest(w1)
\* error: [timeout |-> error instanceof RequestTimeoutError, message |-> error.message]
handleRequestError(w, error) ==
    LET suffix == uuidSuffix(w.d.currentUUID)
        w1 == IF error.timeout
              THEN [w EXCEPT !.d.errorMessage = timeoutMessage(w.d.currentUUID),
                             !.d.isTimeoutError = TRUE]
              ELSE [w EXCEPT !.d.errorMessage =
                                 <<IF error.message # ""
                                   THEN error.message
                                   ELSE "Processing failed. Please try again.">>
                                 \o suffix,
                             !.d.isTimeoutError = FALSE]
    IN resetForNextRequest(w1)

\* next: handler of the getSchema subscription
getSchemaNext(w, response) ==
    resetForNextRequest([w EXCEPT !.d.processedResults = response])

processFileNext_KeepsFile(w, response) ==
    resetForNextRequest([w EXCEPT !.d.processedResults = response])
\* next: handler of the processFile subscription
processFileNext(w, response) ==
    resetForNextRequest([w EXCEPT !.d.processedResults = response,
                                  !.d.selectedFile = NoFile])

(***************************************************************************)
(* The request body                                                        *)
(***************************************************************************)
\* a JavaScript condition on a string or an absent value
Truthy(v) == v # Undefined /\ v # ""

\* an optional string whose characters the model keeps as a sequence
NoContent == [defined |-> FALSE, chars |-> <<>>]

TruthyContent(c) == c.defined /\ c.chars # <<>>

\* the base-64 digit that stands for the padding character '='
Pad == 64

\* base 64 of a sequence of bytes, as a sequence of digits 0..63 and Pad
RECURSIVE btoa(_)
btoa(b) ==
    IF Len(b) = 0 THEN <<>>
    ELSE IF Len(b) = 1
         THEN <<b[1] \div 4, (b[1] % 4) * 16, Pad, Pad>>
    ELSE IF Len(b) = 2
         THEN <<b[1] \div 4, (b[1] % 4) * 16 + b[2] \div 16, (b[2] % 16) * 4, Pad>>
    ELSE <<b[1] \div 4, (b[1] % 4) * 16 + b[2] \div 16,
           (b[2] % 16) * 4 + b[3] \div 64, b[3] % 64>>
         \o btoa(SubSeq(b, 4, Len(b)))

\* reader.result of readAsDataURL(file), already split at its comma:
\* "data:<type>;base64" and the encoded content
readAsDataURL(file) == <<"data:application/octet-stream;base64", btoa(FileBytes[file])>>

\* (reader.result as string).split(',')[1]
base64Content(file) ==
    LET parts == readAsDataURL(file)
    IN IF Len(parts) >= 2 THEN [defined |-> TRUE, chars |-> parts[2]] ELSE NoContent

showOrderTypeAfterTransaction(d) == d.selectedTransactionType = "ORDER"

showOrderTypeAfterResponse(d) ==
    d.selectedTransactionType = "GETSCHEMA" /\ d.selectedResponseType = "ORDER"

\* the DashboardFormData processFile assembles
formData(d) ==
    [transactionType |-> d.selectedTransactionType,
     format |-> d.selectedFormat,
     responseType |-> d.selectedResponseType,
     orderType |-> IF showOrderTypeAfterTransaction(d) \/ showOrderTypeAfterResponse(d)
                   THEN d.selectedOrderType ELSE Undefined]

\* a BackendRequest; Request is a function whose domain is the keys present
buildRequest(fd, uuid, fileContent) ==
    LET r0 == ("TRANSACTION TYPE" :> fd.transactionType)
              @@ ("FORMAT" :> fd.format)
              @@ ("RESPONSE TYPE" :> fd.responseType)
        r1 == IF fd.transactionType = "ORDER" /\ Truthy(fd.orderType)
              THEN r0 @@ ("ORDER TYPE" :> fd.orderType) ELSE r0
        r2 == IF TruthyContent(fileContent)
              THEN r1 @@ ("Input File" :> fileContent.chars) ELSE r1
    IN [UUID |-> uuid, Request |-> r2]

\* closure: what the subscriber function of processFile's Observable has
\* captured until the file is read (<<>> afterwards and for getSchema)
NewRequest(path, uuid, fd, file) ==
    [path |-> path, uuid |-> uuid, closed |-> FALSE,
     reader |-> IF path = "processFile" THEN "reading" ELSE "na",
     http |-> IF path = "getSchema" THEN "outstanding" ELSE "none",
     closure |-> IF path = "processFile"
                 THEN <<[formData |-> fd, file |-> file]>> ELSE <<>>,
     outcomes |-> 0]

startRequest_UUIDNotRecorded(w, uuid) ==
    LET noFileRequired == w.d.selectedTransactionType = "GETSCHEMA"
        w2 == startCountdown(clearOutputState([w EXCEPT !.d.isProcessing = TRUE]))
        fd == formData(w2.d)
        id == Len(w.r) + 1
        path == IF noFileRequired THEN "getSchema" ELSE "processFile"
        w3 == [w2 EXCEPT !.r = Append(@, NewRequest(path, uuid, fd, w.d.selectedFile))]
        w4 == Logged(w3, "subscribe", id)
        w5 == IF noFileRequired
              THEN [Logged(w4, "http.post", id)
                       EXCEPT !.envelope = <<buildRequest(fd, uuid, NoContent)>>]
              ELSE w4
    IN [w5 EXCEPT !.d.currentRequest = id]
\* processFile from "this.isProcessing.set(true)" on
startRequest(w, uuid) ==
    LET noFileRequired == w.d.selectedTransactionType = "GETSCHEMA"
        w2 == startCountdown(clearOutputState([w EXCEPT !.d.isProcessing = TRUE]))
        fd == formData(w2.d)
        id == Len(w.r) + 1
        path == IF noFileRequired THEN "getSchema" ELSE "processFile"
        w3 == [w2 EXCEPT !.d.currentUUID = uuid,
                         !.r = Append(@, NewRequest(path, uuid, fd, w.d.selectedFile))]
        w4 == Logged(w3, "subscribe", id)
        w5 == IF noFileRequired
              THEN [Logged(w4, "http.post", id)
                       EXCEPT !.envelope = <<buildRequest(fd, uuid, NoContent)>>]
              ELSE w4
    IN [w5 EXCEPT !.d.currentRequest = id]

processFile_NoCancel(w, uuid) ==
    LET noFileRequired == w.d.selectedTransactionType = "GETSCHEMA"
        file == w.d.selectedFile
    IN IF ~noFileRequired /\ file = NoFile THEN Logged(w, "processFile.return", NoRequest)
       ELSE startRequest(Logged(w, "processFile", w.d.currentRequest), uuid)
processFile_NoGuard(w, uuid) ==
    startRequest(dropCurrentRequest(Logged(w, "processFile", w.d.currentRequest)), uuid)
processFile(w, uuid) ==
    LET noFileRequired == w.d.selectedTransactionType = "GETSCHEMA"
        file == w.d.selectedFile
    IN IF ~noFileRequired /\ file = NoFile THEN Logged(w, "processFile.return", NoRequest)
       ELSE startRequest(dropCurrentRequest(Logged(w, "processFile", w.d.currentRequest)),
                         uuid)

\* AuthService.logout()
authLogout(w) ==
    Logged(Logged([w EXCEPT !.s.authenticated = FALSE,
                            !.s.navigations = Append(@, "/login"),
                            !.s.view = "leaving"],
                  "clearAuthState", NoRequest),
           "navigate", NoRequest)

logout_KeepsIdleTimer(w) ==
    LET w0 == Logged(w, "logout", w.d.currentRequest)
        w1 == authLogout(dropCurrentRequest(stopCountdown(w0)))
    IN Logged([w1 EXCEPT !.s.navigations = Append(@, "/login")],
              "navigate", NoRequest)
logout(w) ==
    LET w0 == Logged(w, "logout", w.d.currentRequest)
        w1 == authLogout(dropCurrentRequest(stopCountdown(stopIdleTimer(w0))))
    IN Logged([w1 EXCEPT !.s.navigations = Append(@, "/login")],
              "navigate", NoRequest)

(***************************************************************************)
(* The idle monitor.  sys.pollDue is the instant the next callback of the  *)
(* monitor's interval(1000) is due.                                        *)
(***************************************************************************)
POLL_MS == 1000

\* resetIdleTimer(), by way of the HostListeners
onUserActivity_Ignored(w) == w
onUserActivity_RestartsCountdown(w) ==
    [w EXCEPT !.d.lastActivityTime = w.s.now,
              !.d.remainingSeconds = TIMEOUT_SECONDS]
onUserActivity(w) == [w EXCEPT !.d.lastActivityTime = w.s.now]

autoLogout_LogoutFirst(w) ==
    LET w0 == Logged(w, "autoLogout", w.d.currentRequest)
        w1 == authLogout(w0)
        w2 == Logged(stopCountdown(stopIdleTimer(w1)), "stopCountdown", NoRequest)
        w3 == dropCurrentRequest(w2)
    IN Logged([w3 EXCEPT !.s.navigations = Append(@, "/login?sessionExpired=true")],
              "navigate", NoRequest)
autoLogout(w) ==
    LET w0 == Logged(w, "autoLogout", w.d.currentRequest)
        w1 == Logged(stopCountdown(stopIdleTimer(w0)), "stopCountdown", NoRequest)
        w2 == authLogout(dropCurrentRequest(w1))
    IN Logged([w2 EXCEPT !.s.navigations = Append(@, "/login?sessionExpired=true")],
              "navigate", NoRequest)

idleTimeSeconds(w) == (w.s.now - w.d.lastActivityTime) \div 1000

\* the callback of the interval started by startIdleTimer()
idlePoll(w) ==
    LET w0 == Logged([w EXCEPT !.s.pollDue = @ + POLL_MS], "idlePoll", idleTimeSeconds(w))
    IN IF idleTimeSeconds(w) >= IDLE_TIMEOUT_SECONDS THEN autoLogout(w0) ELSE w0

ngOnDestroy(w) ==
    [dropCurrentRequest(stopCountdown(stopIdleTimer(Logged(w, "ngOnDestroy", w.d.currentRequest))))
        EXCEPT !.s.view = "destroyed"]

(***************************************************************************)
(* Form state and file intake                                              *)
(***************************************************************************)
\* TransactionType.ITEM: the enumeration declares no such member
TransactionType_ITEM == Undefined

\* a switch takes the first case that matches
filteredResponseTypes(transactionType) ==
    IF transactionType = "ORDER" THEN orderResponseTypes
    ELSE IF transactionType = "ASN" THEN asnResponseTypes
    ELSE IF transactionType = TransactionType_ITEM THEN itemResponseTypes
    ELSE IF transactionType = "GETSCHEMA" THEN getSchemaResponseTypes
    ELSE orderResponseTypes

isFileInputDisabled(d) == d.selectedTransactionType = "GETSCHEMA"

isProcessDisabled_FileOnly(d) == d.selectedFile = NoFile
isProcessDisabled(d) ==
    IF isFileInputDisabled(d) THEN FALSE ELSE d.selectedFile = NoFile

\* signal.set(v) notifies the effect only when the value changes
onTransactionTypeChange(w, value) ==
    LET w1 == [w EXCEPT !.d.selectedTransactionType = value,
                        !.d.effectDirty = @ \/ value # w.d.selectedTransactionType]
        w2 == IF value = "ORDER"
              THEN [w1 EXCEPT !.d.selectedOrderType = "LTL"] ELSE w1
    IN IF value = "GETSCHEMA"
       THEN [w2 EXCEPT !.d.selectedFile = NoFile, !.d.selectedOrderType = "LTL"]
       ELSE w2

onResponseTypeChange_KeepsOrderType(w, value) ==
    [w EXCEPT !.d.selectedResponseType = value,
              !.d.effectDirty = @ \/ value # w.d.selectedResponseType]
\* the effect reads selectedResponseType too, so it is notified of this change
onResponseTypeChange(w, value) ==
    LET w1 == [w EXCEPT !.d.selectedResponseType = value,
                        !.d.effectDirty = @ \/ value # w.d.selectedResponseType]
    IN IF value = "ORDER"
       THEN [w1 EXCEPT !.d.selectedOrderType = "LTL"] ELSE w1

\* the constructor's effect, run by the framework after a signal it reads changed
responseTypeEffect(w) ==
    LET valid == filteredResponseTypes(w.d.selectedTransactionType)
        w1 == [w EXCEPT !.d.effectDirty = FALSE]
    IN IF w.d.selectedResponseType \notin Range(valid)
       THEN [w1 EXCEPT !.d.selectedResponseType = valid[1]]
       ELSE w1

onDragOver(w) ==
    IF isFileInputDisabled(w.d) THEN w ELSE [w EXCEPT !.d.isDragOver = TRUE]

onDragLeave(w) == [w EXCEPT !.d.isDragOver = FALSE]

onDrop_NoGuard(w, files) ==
    LET w1 == [w EXCEPT !.d.isDragOver = FALSE]
    IN IF Len(files) > 0
       THEN clearOutputState([w1 EXCEPT !.d.selectedFile = files[1]])
       ELSE w1
\* files: the event's file list (at most its first file is read)
onDrop(w, files) ==
    IF isFileInputDisabled(w.d) THEN w
    ELSE LET w1 == [w EXCEPT !.d.isDragOver = FALSE]
         IN IF Len(files) > 0
            THEN clearOutputState([w1 EXCEPT !.d.selectedFile = files[1]])
            ELSE w1

onFileSelected(w, files) ==
    IF isFileInputDisabled(w.d) THEN w
    ELSE IF Len(files) > 0
         THEN clearOutputState([w EXCEPT !.d.selectedFile = files[1]])
         ELSE w

removeFile_KeepsOutput(w) == [w EXCEPT !.d.selectedFile = NoFile]
removeFile(w) == clearOutputState([w EXCEPT !.d.selectedFile = NoFile])

(***************************************************************************)
(* Downloads.  sys.now is the clock in milliseconds, sys.timers the        *)
(* pending setTimeout callbacks in the order they were set, sys.downloads  *)
(* the downloads the browser was handed (the item, the request that        *)
(* delivered it, the instant, and the downloadAll call it belongs to, 0    *)
(* for downloadOutput), sys.calls the downloadAll calls that set timers.    *)
(***************************************************************************)
STAGGER_MS == 500
CLEAR_DELAY_MS == 300

Without(seq, k) == SubSeq(seq, 1, k - 1) \o SubSeq(seq, k + 1, Len(seq))

\* the blob is built from the item (decoded, or as plain text when it is not
\* base-64) and link.click() hands it to the browser
download(w, result, of, call) ==
    Logged([w EXCEPT !.s.downloads =
                Append(@, [result |-> result, of |-> of, at |-> w.s.now, call |-> call])],
           "download", result)

downloadOutput_RemovesFirst(w, index) ==
    LET results == w.d.processedResults
        w0 == Logged(w, "downloadOutput", index)
    IN IF index >= Len(results) THEN w0
       ELSE IF index < 0 THEN Logged(w0, "TypeError", index)
       ELSE [download(w0, results[index + 1], Len(w.r), 0)
                EXCEPT !.d.processedResults = Tail(results)]
\* index counts from 0.  A negative index passes the guard; results[index]
\* is then undefined and reading its content raises a TypeError, in the try
\* block and again in the catch block.
downloadOutput(w, index) ==
    LET results == w.d.processedResults
        w0 == Logged(w, "downloadOutput", index)
    IN IF index >= Len(results) THEN w0
       ELSE IF index < 0 THEN Logged(w0, "TypeError", index)
       ELSE [download(w0, results[index + 1], Len(w.r), 0)
                EXCEPT !.d.processedResults = Without(results, index + 1)]

\* setTimeout(callback, delay)
setTimeout(w, timer, delay) ==
    [w EXCEPT !.s.timers = Append(@, [timer EXCEPT !.due = w.s.now + delay])]

RECURSIVE scheduleDownloads(_, _, _, _)
scheduleDownloads(w, results, call, index) ==
    IF index >= Len(results) THEN w
    ELSE scheduleDownloads(
            setTimeout(w, [kind |-> "download", call |-> call, index |-> index,
                           result |-> results[index + 1], of |-> Len(w.r),
                           last |-> (index = Len(results) - 1), due |-> 0],
                       index * STAGGER_MS),
            results, call, index + 1)

downloadAll(w) ==
    LET results == w.d.processedResults
        w0 == Logged(w, "downloadAll", Len(results))
    IN IF results = <<>> THEN w0
       ELSE scheduleDownloads([w0 EXCEPT !.s.calls = @ + 1], results, w.s.calls + 1, 0)

\* the callback of timer k runs
timerFires(w, k) ==
    LET t == w.s.timers[k]
        w0 == Logged([w EXCEPT !.s.timers = Without(@, k)], "timer", t.call)
    IN IF t.kind = "clear"
       THEN Logged([w0 EXCEPT !.d.processedResults = <<>>], "clear", t.call)
       ELSE LET w1 == download(w0, t.result, t.of, t.call)
            IN IF t.last
               THEN setTimeout(w1, [t EXCEPT !.kind = "clear"], CLEAR_DELAY_MS)
               ELSE w1

\* timers run no earlier than they are due, in the order of their due times
\* and, among equals, in the order they were set
Runnable(s, k) ==
    /\ s.timers[k].due <= s.now
    /\ \A j \in DOMAIN s.timers :
            \/ j = k
            \/ s.timers[j].due > s.timers[k].due
            \/ s.timers[j].due = s.timers[k].due /\ j > k

(***************************************************************************)
(* Timers and the network                                                  *)
(***************************************************************************)
countdownTick_OffByOne(w) ==
    IF w.d.remainingSeconds > 0
    THEN [w EXCEPT !.d.remainingSeconds = @ - 1]
    ELSE handleCountdownTimeout(w)
\* one firing of the countdown's interval(1000)
countdownTick(w) ==
    IF w.d.remainingSeconds > 1
    THEN [w EXCEPT !.d.remainingSeconds = @ - 1]
    ELSE handleCountdownTimeout(w)

\* reader.onload: the request is built and posted, whether or not the outer
\* subscription is still open
readerOnload(w, id) ==
    LET q == w.r[id]
        requestBody == IF q.closure = <<>> THEN <<>>
                       ELSE <<buildRequest(q.closure[1].formData, q.uuid,
                                           base64Content(q.closure[1].file))>>
    IN [Logged([w EXCEPT !.r[id].reader = "loaded", !.r[id].http = "outstanding",
                         !.r[id].closure = <<>>],
               "http.post", id)
           EXCEPT !.envelope = requestBody]

\* a closed Subscriber ignores next/error; complete/error close it
deliverNext(w, id, response) ==
    LET w1 == [w EXCEPT !.r[id].http = "settled"]
        w2 == [Logged(w1, "next", id) EXCEPT !.response = response]
        w3 == IF w1.r[id].closed THEN Logged(w1, "ignored", id)
              ELSE IF w1.r[id].path = "getSchema"
                   THEN getSchemaNext(w2, response)
                   ELSE processFileNext(w2, response)
    IN [w3 EXCEPT !.r[id].closed = TRUE]

deliverError(w, id, error) ==
    LET w1 == IF w.r[id].closed THEN Logged(w, "ignored", id)
              ELSE handleRequestError([Logged(w, "error", id) EXCEPT !.error = <<error>>],
                                      error)
    IN [w1 EXCEPT !.r[id].closed = TRUE]

readerOnerror(w, id) ==
    deliverError([w EXCEPT !.r[id].reader = "failed", !.r[id].closure = <<>>], id,
                 [timeout |-> FALSE, message |-> "Failed to read file"])

\* timeout(TIMEOUT_DURATION) fired, or the call failed: catchError(handleError)
httpError(w, id, error) ==
    deliverError([w EXCEPT !.r[id].http = "settled"], id, error)

RequestTimeoutError ==
    [timeout |-> TRUE, message |-> "Request timed out. Please try again."]

Errors == {RequestTimeoutError} \cup {[timeout |-> FALSE, message |-> m] : m \in HttpErrors}

(***************************************************************************)
(* The state machine                                                       *)
(***************************************************************************)
Init ==
    /\ dash = [currentRequest |-> NoRequest,
               countdownSubscription |-> FALSE,
               idleTimerSubscription |-> TRUE,
               remainingSeconds |-> TIMEOUT_SECONDS,
               selectedTransactionType |-> "ORDER",
               selectedOrderType |-> "LTL",
               selectedFormat |-> "EDI",
               selectedResponseType |-> "ACK",
               selectedFile |-> NoFile,
               isDragOver |-> FALSE,
               lastActivityTime |-> 0,
               isProcessing |-> FALSE,
               processedResults |-> <<>>,
               errorMessage |-> NoMessage,
               isTimeoutError |-> FALSE,
               currentUUID |-> NoUUID,
               effectDirty |-> FALSE]
    /\ reqs = <<>>
    /\ sys = [view |-> "active", authenticated |-> TRUE, navigations |-> <<>>,
              now |-> 0, timers |-> <<>>, downloads |-> <<>>, calls |-> 0,
              pollDue |-> POLL_MS, tickDue |-> 0]
    /\ hist = [log |-> <<>>, response |-> <<>>, error |-> <<>>, envelope |-> <<>>,
               countdownFor |-> NoRequest, ticks |-> 0]

Active == sys.view = "active"

\* the request whose subscription the component holds open
InFlight == IF dash.currentRequest # NoRequest /\ ~reqs[dash.currentRequest].closed
            THEN dash.currentRequest ELSE NoRequest

\* generateUUID(): the n-th call returns the n-th identifier of the pool
generateUUID(n) == UUIDPool[n]

\* one more handler has delivered an outcome of request id to the component
Outcome(w, id) ==
    IF id # NoRequest THEN [w EXCEPT !.r[id].outcomes = @ + 1] ELSE w

\* a request that is closed and has no file read or HTTP call pending can no
\* longer act: only its path, its UUID and its outcomes are kept.  Of a
\* closed request whose file is still being read, what the read will post is
\* no longer followed: its UUID is kept, its form data and file are not
Settled(q) ==
    IF q.closed /\ q.reader # "reading" /\ q.http # "outstanding"
    THEN [q EXCEPT !.reader = "done", !.http = "done"]
    ELSE IF q.closed THEN [q EXCEPT !.closure = <<>>] ELSE q

\* a request that was settled before the handler ran is only counted from
\* now on: which path it took is no longer kept
Archived(q) == [q EXCEPT !.path = "done"]

Has(log, e) == \E i \in DOMAIN log : log[i].e = e

\* armedFor: the request a countdown armed by this handler belongs to
Commit(w, armedFor, ticks) ==
    /\ dash' = w.d
    /\ reqs' = [id \in DOMAIN w.r |->
                    IF id \in DOMAIN reqs /\ reqs[id].http = "done"
                    THEN Archived(w.r[id])
                    ELSE Settled(w.r[id])]
    /\ sys' = IF w.d.countdownSubscription
              THEN w.s ELSE [w.s EXCEPT !.tickDue = 0]
    /\ hist' = IF w.d.countdownSubscription
               THEN [log |-> w.log, response |-> w.response,
                     error |-> w.error, envelope |-> w.envelope,
                     countdownFor |-> armedFor, ticks |-> ticks]
               ELSE [log |-> w.log, response |-> w.response,
                     error |-> w.error, envelope |-> w.envelope,
                     countdownFor |-> NoRequest, ticks |-> 0]

Quiet(w) == Commit(w, hist.countdownFor, hist.ticks)

ProcessFile ==
    /\ Active
    /\ LET w == processFile(World, generateUUID(Len(reqs) + 1))
           dispatched == Len(w.r) > Len(reqs)
       IN /\ dispatched => Len(reqs) < MaxRequests
          /\ IF dispatched
             THEN Commit(Outcome(w, InFlight), Len(w.r), 0)
             ELSE Quiet(w)

CountdownTick ==
    /\ dash.countdownSubscription
    /\ LET w == countdownTick(World)
       IN IF Has(w.log, "timeout")
          THEN Commit(Outcome(Logged(w, "expiredOnTick", hist.ticks + 1),
                              hist.countdownFor),
                      hist.countdownFor, hist.ticks + 1)
          ELSE Commit(w, hist.countdownFor, hist.ticks + 1)

CancelRequest ==
    /\ Active
    /\ Quiet(Outcome(cancelRequest(World), InFlight))

ReaderOnload ==
    \E id \in DOMAIN reqs :
        /\ reqs[id].reader = "reading"
        /\ Quiet(readerOnload(World, id))

ReaderOnerror ==
    \E id \in DOMAIN reqs :
        /\ reqs[id].reader = "reading"
        /\ Quiet(Outcome(readerOnerror(World, id),
                         IF reqs[id].closed THEN NoRequest ELSE id))

HttpSuccess ==
    \E id \in DOMAIN reqs, response \in Responses :
        /\ reqs[id].http = "outstanding"
        /\ Quiet(Outcome(deliverNext(World, id, response),
                         IF reqs[id].closed THEN NoRequest ELSE id))

HttpError ==
    \E id \in DOMAIN reqs, error \in Errors :
        /\ reqs[id].http = "outstanding"
        /\ Quiet(Outcome(httpError(World, id, error),
                         IF reqs[id].closed THEN NoRequest ELSE id))

\* the transaction types the orchestration is exercised with: one that needs
\* a file and the one that needs none
OrchestratedTypes == {"ORDER", "GETSCHEMA"}

OnTransactionTypeChange ==
    \E value \in OrchestratedTypes :
        /\ Active
        /\ Quiet(onTransactionTypeChange(World, value))

ResponseTypeEffect ==
    /\ sys.view # "destroyed"
    /\ dash.effectDirty
    /\ Quiet(responseTypeEffect(World))

FileLists == {<<>>} \cup {<<f>> : f \in Files}

OnDrop ==
    \E files \in FileLists :
        /\ Active
        /\ Quiet(onDrop(World, files))

OnFileSelected ==
    \E files \in FileLists :
        /\ Active
        /\ Quiet(onFileSelected(World, files))

RemoveFile ==
    /\ Active
    /\ Quiet(removeFile(World))

Logout ==
    /\ Active
    /\ Quiet(Outcome(logout(World), InFlight))

NgOnDestroy ==
    /\ sys.view = "leaving"
    /\ Quiet(Outcome(ngOnDestroy(World), InFlight))

Next ==
    \/ ProcessFile
    \/ CountdownTick
    \/ CancelRequest
    \/ ReaderOnload
    \/ ReaderOnerror
    \/ HttpSuccess
    \/ HttpError
    \/ OnTransactionTypeChange
    \/ ResponseTypeEffect
    \/ OnDrop
    \/ OnFileSelected
    \/ RemoveFile
    \/ Logout
    \/ NgOnDestroy

Spec == Init /\ [][Next]_vars

(***************************************************************************)
(* The form and the request body: every transaction type the dropdown      *)
(* offers, the response types offered for it, the file intake, and the     *)
(* submissions up to the posting of their bodies                           *)
(***************************************************************************)
\* transactionTypes = Object.values(TransactionType)
transactionTypes == TransactionType

SelectTransactionType ==
    \E value \in transactionTypes :
        /\ Active
        /\ Quiet(onTransactionTypeChange(World, value))

\* the response types on offer are those of the selected transaction type
SelectResponseType ==
    \E value \in Range(filteredResponseTypes(dash.selectedTransactionType)) :
        /\ Active
        /\ Quiet(onResponseTypeChange(World, value))

\* orderTypes = Object.values(OrderType)
orderTypes == OrderType

\* the order-type dropdown, shown while one of the two showOrderType
\* computeds holds, writes its choice to selectedOrderType
SelectOrderType ==
    \E value \in orderTypes :
        /\ Active
        /\ showOrderTypeAfterTransaction(dash) \/ showOrderTypeAfterResponse(dash)
        /\ Quiet([World EXCEPT !.d.selectedOrderType = value])

\* processFile(), for the first MaxSubmissions requests
SubmitForm ==
    /\ Active
    /\ LET w == processFile(World, generateUUID(Len(reqs) + 1))
           dispatched == Len(w.r) > Len(reqs)
       IN /\ dispatched => Len(reqs) < MaxSubmissions
          /\ IF dispatched
             THEN Commit(Outcome(w, InFlight), Len(w.r), 0)
             ELSE Quiet(w)

FormNext ==
    \/ SelectTransactionType
    \/ SelectResponseType
    \/ SelectOrderType
    \/ ResponseTypeEffect
    \/ OnFileSelected
    \/ RemoveFile
    \/ SubmitForm
    \/ ReaderOnload

FormSpec == Init /\ [][FormNext]_vars

(***************************************************************************)
(* The file intake: the drop zone, the file input and the remove button,   *)
(* exercised on a form that holds results or an error of an earlier        *)
(* request.  Each intake step records which handler ran.                   *)
(***************************************************************************)
OnDragOver ==
    /\ Active
    /\ Quiet(onDragOver(World))

OnDragLeave ==
    /\ Active
    /\ Quiet(onDragLeave(World))

DropFiles ==
    \E files \in FileLists :
        /\ Active
        /\ Quiet(onDrop(Logged(World, "onDrop", Len(files)), files))

ChooseFiles ==
    \E files \in FileLists :
        /\ Active
        /\ Quiet(onFileSelected(Logged(World, "onFileSelected", Len(files)), files))

ClearFile ==
    /\ Active
    /\ Quiet(removeFile(Logged(World, "removeFile", NoRequest)))

IntakeNext ==
    \/ OnTransactionTypeChange
    \/ ResponseTypeEffect
    \/ OnDragOver
    \/ OnDragLeave
    \/ DropFiles
    \/ ChooseFiles
    \/ ClearFile
    \/ SubmitForm
    \/ ReaderOnload
    \/ HttpSuccess
    \/ HttpError

IntakeSpec == Init /\ [][IntakeNext]_vars

(***************************************************************************)
(* The downloads: one response is obtained, and its items are downloaded   *)
(* one by one and all at once, in every interleaving with the timers of    *)
(* downloadAll.  Time passes in tenths of a second while timers are        *)
(* pending, and a timer runs at most a tenth of a second late.             *)
(***************************************************************************)
Tenth == STAGGER_MS \div 5
MaxTimerLag == Tenth

DownloadIndexes == -1 .. MaxItems

DownloadOutput ==
    \E index \in DownloadIndexes :
        /\ Active
        /\ LET w == downloadOutput(World, index)
           IN /\ Len(w.s.downloads) <= MaxDownloads
              /\ Quiet(w)

DownloadAll ==
    /\ Active
    /\ LET w == downloadAll(World)
       IN /\ Len(w.s.downloads) + Len(w.s.timers) <= MaxDownloads
          /\ Quiet(w)

TimerFires ==
    \E k \in DOMAIN sys.timers :
        /\ Runnable(sys, k)
        /\ Quiet(timerFires(World, k))

StaggerElapses ==
    /\ sys.timers # <<>>
    /\ \A k \in DOMAIN sys.timers : sys.now + Tenth <= sys.timers[k].due + MaxTimerLag
    /\ Quiet([World EXCEPT !.s.now = @ + Tenth])

DownloadNext ==
    \/ OnFileSelected
    \/ SubmitForm
    \/ ReaderOnload
    \/ HttpSuccess
    \/ DownloadOutput
    \/ DownloadAll
    \/ TimerFires
    \/ StaggerElapses

DownloadSpec == Init /\ [][DownloadNext]_vars

(***************************************************************************)
(* The idle monitor: time passes in half seconds, a callback of the        *)
(* monitor's interval runs at most half a second late, the user is active  *)
(* during the first ActivityHorizon milliseconds and idle afterwards, and  *)
(* a request may be in flight, its countdown waiting, when the monitor     *)
(* fires.                                                                  *)
(***************************************************************************)
HalfSecond == POLL_MS \div 2
MaxPollLag == HalfSecond

IdleElapses ==
    /\ sys.now < MaxClock
    /\ dash.idleTimerSubscription => sys.now + HalfSecond <= sys.pollDue + MaxPollLag
    /\ Quiet([World EXCEPT !.s.now = @ + HalfSecond])

OnUserActivity ==
    /\ sys.view # "destroyed"
    /\ sys.now <= ActivityHorizon
    /\ Quiet(onUserActivity(Logged(World, "onUserActivity", sys.now)))

IdlePoll ==
    /\ dash.idleTimerSubscription
    /\ sys.now >= sys.pollDue
    /\ LET w == idlePoll(World)
       IN Quiet(IF Has(w.log, "autoLogout") THEN Outcome(w, InFlight) ELSE w)

IdleNext ==
    \/ IdleElapses
    \/ OnUserActivity
    \/ IdlePoll
    \/ OnFileSelected
    \/ SubmitForm

IdleSpec == Init /\ [][IdleNext]_vars

(***************************************************************************)
(* The flight of a request that nobody interrupts: the form is filled in   *)
(* and submitted, on either path, and then left alone; the network may     *)
(* settle or never settle.  The countdown's interval keeps firing while it *)
(* is subscribed.                                                          *)
(***************************************************************************)
FlightNext ==
    \/ OnTransactionTypeChange
    \/ ResponseTypeEffect
    \/ OnFileSelected
    \/ SubmitForm
    \/ ReaderOnload
    \/ ReaderOnerror
    \/ HttpSuccess
    \/ HttpError
    \/ CountdownTick

FlightSpec == Init /\ [][FlightNext]_vars /\ WF_vars(CountdownTick)

(***************************************************************************)
(* downloadAll and the end of the view: the items of a response are        *)
(* downloaded all at once, and the user logs out and the view is torn      *)
(* down while the timers of downloadAll may still be pending.              *)
(***************************************************************************)
TeardownNext ==
    \/ OnFileSelected
    \/ SubmitForm
    \/ ReaderOnload
    \/ HttpSuccess
    \/ DownloadAll
    \/ TimerFires
    \/ StaggerElapses
    \/ Logout
    \/ NgOnDestroy

TeardownSpec == Init /\ [][TeardownNext]_vars

(***************************************************************************)
(* downloadAll and the next request: while the timers of downloadAll are   *)
(* pending another file is staged and processed.                           *)
(***************************************************************************)
RefillNext ==
    \/ OnFileSelected
    \/ ProcessFile
    \/ ReaderOnload
    \/ HttpSuccess
    \/ DownloadAll
    \/ TimerFires
    \/ StaggerElapses

RefillSpec == Init /\ [][RefillNext]_vars

(***************************************************************************)
(* The end of a session: the user logs out, or stays away until the idle   *)
(* monitor logs them out, and the view is torn down; a request may be in   *)
(* flight.  Once the view is left, time is followed until the next poll of *)
(* the idle monitor would have been due.                                   *)
(***************************************************************************)
TICK_MS == 1000

\* the instant the next callback of the countdown's interval is due:
\* sys.tickDue is the instant of its first callback
NextTickDue == sys.tickDue + hist.ticks * TICK_MS

\* both intervals run at most MaxPollLag late
SessionElapses ==
    /\ sys.now < MaxClock
    /\ sys.now + HalfSecond <= sys.pollDue + MaxPollLag
    /\ dash.countdownSubscription =>
            sys.now + HalfSecond <= NextTickDue + MaxPollLag
    /\ Quiet([World EXCEPT !.s.now = @ + HalfSecond])

\* the user works with the form during the first ActivityHorizon
\* milliseconds of the session
SessionFile ==
    /\ sys.now <= ActivityHorizon
    /\ OnFileSelected

SessionSubmit ==
    /\ Active
    /\ sys.now <= ActivityHorizon
    /\ LET w == processFile(World, generateUUID(Len(reqs) + 1))
           dispatched == Len(w.r) > Len(reqs)
       IN /\ dispatched => Len(reqs) < MaxSubmissions
          /\ IF dispatched
             THEN Commit(Outcome([w EXCEPT !.s.tickDue = sys.now + TICK_MS],
                                 InFlight),
                         Len(w.r), 0)
             ELSE Quiet(w)

SessionTick ==
    /\ sys.now >= NextTickDue
    /\ CountdownTick

SessionNext ==
    \/ SessionElapses
    \/ OnUserActivity
    \/ IdlePoll
    \/ SessionFile
    \/ SessionSubmit
    \/ ReaderOnload
    \/ HttpSuccess
    \/ HttpError
    \/ SessionTick
    \/ CancelRequest
    \/ Logout
    \/ NgOnDestroy

SessionSpec == Init /\ [][SessionNext]_vars

(***************************************************************************)
(* Properties                                                              *)
(***************************************************************************)
Entry(e) == {i \in DOMAIN hist.log : hist.log[i].e = e}

OpenRequests == {id \in DOMAIN reqs : ~reqs[id].closed}

\* the network operation of a request whose subscription is closed comes to
\* its end in this step
LateResolution(id) ==
    /\ reqs[id].closed
    /\ reqs[id].http # "done"
    /\ reqs'[id].http = "done"

Selections(d) ==
    <<d.selectedTransactionType, d.selectedOrderType, d.selectedFormat,
      d.selectedResponseType>>

\* C1: at most one request subscription is open, and it is the one held in
\* currentRequest.
C1_SingleLiveSubscription ==
    /\ Cardinality(OpenRequests) <= 1
    /\ \A id \in OpenRequests : dash.currentRequest = id

C1_Witness ==
    /\ Len(reqs) >= 2
    /\ Entry("processFile") # {}
    /\ \E i \in Entry("unsubscribe") : hist.log[i].arg = 1
    /\ OpenRequests = {2}

\* C2: a processFile that finds a request in flight unsubscribes it before it
\* subscribes to (and dispatches) the new one, and when the network operation
\* of a request whose subscription is closed resolves later, processedResults,
\* errorMessage, isTimeoutError, isProcessing, selectedFile, remainingSeconds
\* and currentUUID keep their values.
C2_CancelledFirst ==
    \A i \in Entry("subscribe") :
        /\ \A id \in DOMAIN reqs : id # hist.log[i].arg => reqs[id].closed
        /\ \A j \in Entry("unsubscribe") \cup Entry("abort") : j < i
        /\ \A j \in Entry("http.post") : j > i
        /\ \A k \in Entry("processFile") :
               hist.log[k].arg # NoRequest =>
                   \E j \in Entry("unsubscribe") : hist.log[j].arg = hist.log[k].arg

C2_LateResolutionInert ==
    \A id \in DOMAIN reqs :
        LateResolution(id) =>
            /\ dash'.processedResults = dash.processedResults
            /\ dash'.errorMessage = dash.errorMessage
            /\ dash'.isTimeoutError = dash.isTimeoutError
            /\ dash'.isProcessing = dash.isProcessing
            /\ dash'.selectedFile = dash.selectedFile
            /\ dash'.remainingSeconds = dash.remainingSeconds
            /\ dash'.currentUUID = dash.currentUUID

C2_SupersededRequestInert ==
    [](C2_CancelledFirst) /\ [][C2_LateResolutionInert]_vars

\* a superseded request has resolved while its successor is in flight
C2_Witness ==
    /\ \E i \in Entry("ignored") : hist.log[i].arg = 1
    /\ dash.isProcessing
    /\ dash.currentRequest = 2

\* C3: every request delivers at most one outcome to the component (a
\* success, an error, a countdown timeout or a cancellation), a request is
\* closed exactly when it has delivered its outcome, and the countdown is
\* armed exactly while the held request is open, so the first outcome
\* disarms the others.
C3_SingleOutcome ==
    /\ \A id \in DOMAIN reqs :
           /\ reqs[id].outcomes <= 1
           /\ reqs[id].closed <=> reqs[id].outcomes = 1
    /\ dash.countdownSubscription <=> OpenRequests # {}
    /\ dash.countdownSubscription => hist.countdownFor = dash.currentRequest

\* the countdown won the race, the network operation resolved afterwards
C3_Witness ==
    /\ Len(reqs) = 1
    /\ \E i \in Entry("ignored") : hist.log[i].arg = 1
    /\ dash.isTimeoutError
    /\ ~dash.isProcessing
    /\ reqs[1].outcomes = 1

\* C4 (as claimed): after the countdown of a request has expired,
\* isTimeoutError is set, isProcessing is cleared, errorMessage holds the
\* bound and the request's correlation id, no countdown is armed and no
\* request is held.
C4_TimedOutShape ==
    \A i \in Entry("timeout") :
        /\ dash.isTimeoutError
        /\ ~dash.isProcessing
        /\ ToString(TIMEOUT_SECONDS) \in Range(dash.errorMessage)
        /\ hist.log[i].arg # NoRequest
        /\ reqs[hist.log[i].arg].uuid \in Range(dash.errorMessage)
        /\ ~dash.countdownSubscription
        /\ dash.currentRequest = NoRequest

\* C5: while the countdown is armed remainingSeconds is the bound minus the
\* ticks delivered since it was armed (60 when armed, one less per tick),
\* and handleCountdownTimeout runs on the 60th tick and on no other.
C5_TimeoutOnLastTick ==
    /\ dash.countdownSubscription =>
           /\ hist.ticks < TIMEOUT_SECONDS
           /\ dash.remainingSeconds = TIMEOUT_SECONDS - hist.ticks
    /\ Entry("timeout") # {} =>
           /\ Entry("expiredOnTick") # {}
           /\ \A i \in Entry("expiredOnTick") : hist.log[i].arg = TIMEOUT_SECONDS

C5_Witness ==
    /\ Entry("timeout") # {}
    /\ \E i \in Entry("expiredOnTick") : hist.log[i].arg = TIMEOUT_SECONDS

\* C6: cancelRequest on a request in flight leaves the component idle
\* (isProcessing false, no countdown, no held request, the request closed,
\* currentUUID null, remainingSeconds 60); it changes none of the four
\* selections, selectedFile, errorMessage and isTimeoutError, and neither
\* does the later resolution of a closed request's network operation change
\* errorMessage or isTimeoutError.
C6_IdleAfterCancel ==
    \A i \in Entry("cancelRequest") :
        hist.log[i].arg # NoRequest =>
            /\ ~dash.isProcessing
            /\ ~dash.countdownSubscription
            /\ dash.currentRequest = NoRequest
            /\ reqs[hist.log[i].arg].closed
            /\ dash.currentUUID = NoUUID
            /\ dash.remainingSeconds = TIMEOUT_SECONDS
            /\ dash.errorMessage = NoMessage
            /\ ~dash.isTimeoutError

C6_CancelFrame ==
    /\ (\E i \in DOMAIN hist'.log :
            hist'.log[i].e = "cancelRequest" /\ hist'.log[i].arg # NoRequest) =>
           /\ Selections(dash') = Selections(dash)
           /\ dash'.selectedFile = dash.selectedFile
           /\ dash'.errorMessage = dash.errorMessage
           /\ dash'.isTimeoutError = dash.isTimeoutError
    /\ \A id \in DOMAIN reqs :
           LateResolution(id) =>
               /\ dash'.errorMessage = dash.errorMessage
               /\ dash'.isTimeoutError = dash.isTimeoutError

C6_CancelIsSilent ==
    [](C6_IdleAfterCancel) /\ [][C6_CancelFrame]_vars

C6_Witness ==
    /\ \E i \in Entry("cancelRequest") : hist.log[i].arg # NoRequest
    /\ Entry("unsubscribe") # {}
    /\ dash.selectedFile # NoFile

\* C7 (as claimed): cancelRequest invoked while no request is held changes no
\* field of the component.
C7_IdleCancelNoOp ==
    [][(\E i \in DOMAIN hist'.log :
           hist'.log[i].e = "cancelRequest" /\ hist'.log[i].arg = NoRequest)
       => dash' = dash]_vars

\* C8 (as claimed): once a request's subscription is closed, no HTTP call of
\* that request is outstanding and none is dispatched later.
C8_NoCallAfterAbort ==
    \A id \in DOMAIN reqs :
        reqs[id].closed => reqs[id].http # "outstanding" /\ reqs[id].reader # "reading"

\* C9: after the next handler has run, processedResults is the response it
\* was handed, errorMessage is null, isProcessing is false, no countdown is
\* armed, no request is held and remainingSeconds is 60.
C9_SuccessShape ==
    Entry("next") # {} =>
        /\ dash.processedResults = hist.response
        /\ dash.errorMessage = NoMessage
        /\ ~dash.isProcessing
        /\ ~dash.countdownSubscription
        /\ dash.currentRequest = NoRequest
        /\ OpenRequests = {}
        /\ dash.remainingSeconds = TIMEOUT_SECONDS

C9_Witness ==
    /\ Entry("next") # {}
    /\ Len(dash.processedResults) = MaxItems

\* C10 (as claimed): after any successful outcome no file is staged.
C10_NoFileAfterSuccess ==
    Entry("next") # {} => dash.selectedFile = NoFile

\* C10 (amended): after a successful outcome of a file-upload request no file
\* is staged; a successful outcome of a GETSCHEMA request leaves selectedFile
\* as it was.
C10_FileUploadClears ==
    \A i \in Entry("next") :
        reqs[hist.log[i].arg].path = "processFile" => dash.selectedFile = NoFile

C10_GetSchemaKeeps ==
    \A i \in DOMAIN hist'.log :
        (hist'.log[i].e = "next" /\ reqs[hist'.log[i].arg].path = "getSchema")
            => dash'.selectedFile = dash.selectedFile

C10_FileConsumedByUpload ==
    [](C10_FileUploadClears) /\ [][C10_GetSchemaKeeps]_vars

\* a GETSCHEMA request succeeded after the type was changed and a file staged
C10_Witness ==
    /\ \E i \in Entry("next") : reqs[hist.log[i].arg].path = "getSchema"
    /\ dash.selectedFile # NoFile

\* the errors handleRequestError can be handed: the ones the model delivers,
\* a failed file read, and an error that carries no message
ErrorInputs ==
    Errors \cup {[timeout |-> FALSE, message |-> m] : m \in {"Failed to read file", ""}}

Idle(d) ==
    /\ ~d.isProcessing
    /\ ~d.countdownSubscription
    /\ d.currentRequest = NoRequest
    /\ d.remainingSeconds = TIMEOUT_SECONDS

\* d: the component after handleRequestError(error) ran with correlation id uuid
FailedShape(d, error, uuid) ==
    /\ d.errorMessage =
           <<IF error.message = "" THEN "Processing failed. Please try again."
             ELSE error.message>>
           \o (IF uuid = NoUUID THEN <<>> ELSE <<" (UUID=", uuid, ")">>)
    /\ ~d.isTimeoutError
    /\ Idle(d)

\* C11: when the in-flight request fails with an error that is not a timeout,
\* errorMessage is the error's message (the generic fallback when it has
\* none) followed by " (UUID=<id>)" when currentUUID is recorded,
\* isTimeoutError is false, and the component is idle: not processing, no
\* countdown, no held request, the request closed.
C11_HandlerShape ==
    InFlight # NoRequest =>
        \A error \in ErrorInputs :
            ~error.timeout =>
                FailedShape(handleRequestError(World, error).d, error, dash.currentUUID)

C11_StepShape ==
    \A i \in DOMAIN hist'.log :
        (hist'.log[i].e = "error" /\ ~hist'.error[1].timeout) =>
            /\ InFlight = hist'.log[i].arg
            /\ FailedShape(dash', hist'.error[1], dash.currentUUID)
            /\ reqs'[hist'.log[i].arg].closed
            /\ dash'.processedResults = dash.processedResults
            /\ dash'.currentUUID = dash.currentUUID

C11_FailureShape ==
    [](C11_HandlerShape) /\ [][C11_StepShape]_vars

\* an HTTP failure was delivered to the request in flight, whose id is recorded
C11_Witness ==
    /\ Entry("error") # {}
    /\ hist.error # <<>>
    /\ ~hist.error[1].timeout
    /\ hist.error[1].message \in HttpErrors
    /\ dash.currentUUID # NoUUID
    /\ Len(dash.errorMessage) = 4

TimedOutShape(d) ==
    /\ d.isTimeoutError
    /\ d.errorMessage # NoMessage
    /\ Idle(d)

\* C12: a timeout reported by the transport (RequestTimeoutError handed to
\* handleRequestError) and the expiry of the countdown
\* (handleCountdownTimeout) leave the component in the same state when they
\* start from the same in-flight state: the same errorMessage, isTimeoutError
\* true, isProcessing false, remainingSeconds 60, no countdown, no held
\* request, and the same currentUUID, selectedFile and processedResults.
C12_HandlersAgree ==
    InFlight # NoRequest =>
        /\ handleRequestError(World, RequestTimeoutError).d = handleCountdownTimeout(World).d
        /\ TimedOutShape(handleCountdownTimeout(World).d)
        /\ handleCountdownTimeout(World).d.currentUUID = dash.currentUUID
        /\ handleCountdownTimeout(World).d.selectedFile = dash.selectedFile
        /\ handleCountdownTimeout(World).d.processedResults = dash.processedResults

C12_StepsAgree ==
    /\ (\E i \in DOMAIN hist'.log :
            hist'.log[i].e = "error" /\ hist'.error[1].timeout) =>
           /\ InFlight # NoRequest
           /\ dash' = handleCountdownTimeout(World).d
    /\ (\E i \in DOMAIN hist'.log : hist'.log[i].e = "timeout") =>
           /\ InFlight # NoRequest
           /\ dash' = handleRequestError(World, RequestTimeoutError).d

C12_TimeoutsEquivalent ==
    [](C12_HandlersAgree) /\ [][C12_StepsAgree]_vars

\* the transport reported the timeout of the request in flight
C12_Witness ==
    /\ Entry("error") # {}
    /\ hist.error = <<RequestTimeoutError>>
    /\ dash.isTimeoutError
    /\ dash.currentUUID # NoUUID

CanSubmit(d) == d.selectedTransactionType = "GETSCHEMA" \/ d.selectedFile # NoFile

\* C13: processFile dispatches a request exactly when the transaction type
\* is GETSCHEMA or a file is staged; otherwise it returns at once: no
\* subscription, no backend call, no countdown armed, no correlation id, and
\* every field of the component, the held request included, as before.
C13_HandlerGuard ==
    LET w == processFile(World, generateUUID(Len(reqs) + 1))
    IN /\ CanSubmit(dash) <=> (Len(w.r) = Len(reqs) + 1 /\ Has(w.log, "subscribe"))
       /\ ~CanSubmit(dash) =>
              /\ w.d = dash /\ w.r = reqs /\ w.s = sys
              /\ w.envelope = <<>>
              /\ ~Has(w.log, "subscribe") /\ ~Has(w.log, "http.post")
              /\ ~Has(w.log, "unsubscribe")

C13_StepGuard ==
    /\ Has(hist'.log, "processFile.return") =>
           /\ ~CanSubmit(dash)
           /\ dash' = dash /\ sys' = sys
           /\ DOMAIN reqs' = DOMAIN reqs
           /\ \A id \in DOMAIN reqs :
                  reqs'[id] = reqs[id] \/ reqs'[id] = Archived(reqs[id])
           /\ hist'.envelope = <<>>
           /\ hist'.countdownFor = hist.countdownFor /\ hist'.ticks = hist.ticks
           /\ ~Has(hist'.log, "subscribe") /\ ~Has(hist'.log, "http.post")
    /\ Has(hist'.log, "processFile") =>
           /\ CanSubmit(dash)
           /\ Len(reqs') = Len(reqs) + 1
           /\ Has(hist'.log, "subscribe")
           /\ ~reqs'[Len(reqs')].closed

C14_InFlightShape ==
    /\ Entry("processFile") # {} =>
           /\ dash.processedResults = <<>>
           /\ dash.errorMessage = NoMessage
           /\ ~dash.isTimeoutError
           /\ dash.isProcessing
           /\ dash.countdownSubscription
           /\ dash.remainingSeconds = TIMEOUT_SECONDS
           /\ hist.ticks = 0
           /\ dash.currentRequest = Len(reqs)
           /\ InFlight = Len(reqs)
           /\ dash.currentUUID # NoUUID
           /\ dash.currentUUID = reqs[Len(reqs)].uuid
           /\ \A id \in 1..(Len(reqs) - 1) : reqs[id].uuid # dash.currentUUID
           /\ hist.envelope # <<>> => hist.envelope[1].UUID = dash.currentUUID
    /\ hist.envelope # <<>> =>
           \A i \in Entry("http.post") :
               hist.envelope[1].UUID = reqs[hist.log[i].arg].uuid

\* the file of an accepted submission has been read and its body posted
\* under the id the component recorded
C14_Witness ==
    /\ Entry("http.post") # {}
    /\ Entry("processFile") = {}
    /\ hist.envelope # <<>>
    /\ "Input File" \in DOMAIN hist.envelope[1].Request
    /\ hist.envelope[1].UUID = dash.currentUUID
    /\ dash.isProcessing

\* C15 (as claimed): a request is started only while the component is idle:
\* a processFile invoked while isProcessing is true, its request in flight
\* and not cancelled, starts no request.
C15_NoStartWhileProcessing ==
    [][(dash.isProcessing /\ InFlight # NoRequest) => Len(reqs') = Len(reqs)]_vars

\* the legal response types the specification declares per transaction type
DeclaredResponseTypes ==
    ("ORDER" :> {"ACK", "SHIPCONFIRM"})
    @@ ("ASN" :> {"ACK", "RECEIPT"})
    @@ ("ITEM" :> {"ACK"})
    @@ ("GETSCHEMA" :> {"ASN", "ORDER", "SHIPCONFIRM", "RECEIPT", "ITEM"})

\* C16 (as claimed): the transaction type the component holds is one of
\* ORDER, ASN, ITEM and GETSCHEMA, and filteredResponseTypes returns exactly
\* the set declared for it.
C16_DeclaredMapping ==
    /\ dash.selectedTransactionType \in DOMAIN DeclaredResponseTypes
    /\ Range(filteredResponseTypes(dash.selectedTransactionType))
           = DeclaredResponseTypes[dash.selectedTransactionType]

\* C17 (as claimed): in every state the selected response type is one of the
\* response types of the selected transaction type.
C17_ResponseTypeLegal ==
    dash.selectedResponseType
        \in Range(filteredResponseTypes(dash.selectedTransactionType))

OrderTypeApplicable(request) ==
    \/ request["TRANSACTION TYPE"] = "ORDER"
    \/ request["TRANSACTION TYPE"] = "GETSCHEMA" /\ request["RESPONSE TYPE"] = "ORDER"

\* C18 (as claimed): a posted request body has the key 'ORDER TYPE' exactly
\* when its transaction type is ORDER, or GETSCHEMA with response type ORDER,
\* and then its value is an order type.
C18_OrderTypeKey ==
    hist.envelope # <<>> =>
        /\ "ORDER TYPE" \in DOMAIN hist.envelope[1].Request
               <=> OrderTypeApplicable(hist.envelope[1].Request)
        /\ "ORDER TYPE" \in DOMAIN hist.envelope[1].Request
               => hist.envelope[1].Request["ORDER TYPE"] \in OrderType

\* C19 (as claimed): a posted request body has the key 'Input File' exactly
\* when its transaction type is not GETSCHEMA.
C19_InputFileKey ==
    hist.envelope # <<>> =>
        ("Input File" \in DOMAIN hist.envelope[1].Request
            <=> hist.envelope[1].Request["TRANSACTION TYPE"] # "GETSCHEMA")

\* C20: under GETSCHEMA the file input is disabled and the process button
\* enabled whatever file is staged; under every other transaction type the
\* file input is enabled and the process button is disabled exactly when no
\* file is staged, whatever the response type.
C20_Of(d) ==
    IF d.selectedTransactionType = "GETSCHEMA"
    THEN isFileInputDisabled(d) /\ ~isProcessDisabled(d)
    ELSE ~isFileInputDisabled(d) /\ (isProcessDisabled(d) <=> d.selectedFile = NoFile)

OrderTypeShown(d) == showOrderTypeAfterTransaction(d) \/ showOrderTypeAfterResponse(d)

\* C21: whenever the order type becomes applicable (the transaction type
\* changes to ORDER, or the response type changes to ORDER under GETSCHEMA,
\* or the form otherwise passes from not applicable to applicable) the
\* selected order type is LTL afterwards, whatever it was before.
C21_HandlersReset ==
    /\ onTransactionTypeChange(World, "ORDER").d.selectedOrderType = "LTL"
    /\ onTransactionTypeChange(World, "GETSCHEMA").d.selectedOrderType = "LTL"
    /\ onResponseTypeChange(World, "ORDER").d.selectedOrderType = "LTL"

C21_StepResets ==
    (\/ dash'.selectedTransactionType = "ORDER" /\ dash.selectedTransactionType # "ORDER"
     \/ showOrderTypeAfterResponse(dash') /\ ~showOrderTypeAfterResponse(dash)
     \/ OrderTypeShown(dash') /\ ~OrderTypeShown(dash))
        => dash'.selectedOrderType = "LTL"

C21_OrderTypeDefault ==
    [](C21_HandlersReset) /\ [][C21_StepResets]_vars

\* a request was submitted with order type PARCEL, and the order type has
\* since become applicable again under GETSCHEMA with response type ORDER
C21_Witness ==
    /\ Len(reqs) >= 1
    /\ reqs[1].closure # <<>>
    /\ reqs[1].closure[1].formData.orderType = "PARCEL"
    /\ showOrderTypeAfterResponse(dash)
    /\ dash.selectedOrderType = "LTL"

\* the component, the requests and the session are as they were
Untouched(w) == w.d = dash /\ w.r = reqs /\ w.s = sys

\* C22: while the transaction type is GETSCHEMA no file is staged; changing
\* the transaction type to GETSCHEMA discards the staged file; and onDrop and
\* onFileSelected change nothing at all while the type is GETSCHEMA.
C22_HandlersUnderSchema ==
    /\ onTransactionTypeChange(World, "GETSCHEMA").d.selectedFile = NoFile
    /\ dash.selectedTransactionType = "GETSCHEMA" =>
            \A files \in FileLists :
                /\ Untouched(onDrop(World, files))
                /\ Untouched(onFileSelected(World, files))

C22_SchemaTakesNoFile ==
    /\ dash.selectedTransactionType = "GETSCHEMA" => dash.selectedFile = NoFile
    /\ C22_HandlersUnderSchema

\* a file was dropped on the GETSCHEMA form while it held results and the
\* drop zone was still highlighted; nothing is staged and the results and
\* the highlight are still there
C22_Witness ==
    /\ dash.selectedTransactionType = "GETSCHEMA"
    /\ \E i \in Entry("onDrop") : hist.log[i].arg = 1
    /\ dash.selectedFile = NoFile
    /\ dash.processedResults # <<>>
    /\ dash.isDragOver

Staged(w, file) ==
    /\ w.d.processedResults = <<>>
    /\ w.d.errorMessage = NoMessage
    /\ w.d.isTimeoutError = FALSE
    /\ w.d.selectedTransactionType = dash.selectedTransactionType
    /\ w.d.selectedOrderType = dash.selectedOrderType
    /\ w.d.selectedFormat = dash.selectedFormat
    /\ w.d.selectedResponseType = dash.selectedResponseType
    /\ w.d.selectedFile = file

\* C23: staging a file (onDrop or onFileSelected with at least one file while
\* the file input is enabled) and removeFile leave processedResults empty,
\* errorMessage null and isTimeoutError false and change none of the four
\* selections; staging sets selectedFile to the first file provided and
\* removeFile sets it to null.
C23_HandlersStage ==
    /\ Staged(removeFile(World), NoFile)
    /\ ~isFileInputDisabled(dash) =>
            \A files \in FileLists \ {<<>>} :
                /\ Staged(onDrop(World, files), files[1])
                /\ Staged(onFileSelected(World, files), files[1])

C23_StepStages ==
    /\ Has(hist'.log, "removeFile") => Staged([d |-> dash'], NoFile)
    /\ \A i \in DOMAIN hist'.log :
            /\ hist'.log[i].e \in {"onDrop", "onFileSelected"}
            /\ hist'.log[i].arg > 0
            /\ ~isFileInputDisabled(dash)
            => \E f \in Files : Staged([d |-> dash'], f)

C23_StagingClearsOutput ==
    [](C23_HandlersStage) /\ [][C23_StepStages]_vars

\* a file has just been chosen on a form whose earlier request has come to
\* its end; the file is staged and no error is shown
C23_Witness ==
    /\ Entry("onFileSelected") # {}
    /\ dash.selectedFile # NoFile
    /\ dash.errorMessage = NoMessage
    /\ ~dash.isTimeoutError
    /\ \E id \in DOMAIN reqs : reqs[id].closed

Downloaded(log) == {i \in DOMAIN log : log[i].e = "download"}

OneDownload(w, results, index) ==
    /\ Cardinality(Downloaded(w.log)) = 1
    /\ \A i \in Downloaded(w.log) : w.log[i].arg = results[index + 1]
    /\ Len(w.d.processedResults) = Len(results) - 1
    /\ w.d.processedResults = Without(results, index + 1)
    /\ ~Has(w.log, "TypeError")

\* C24: downloadOutput(i) with 0 <= i < N on an N-item held collection
\* triggers exactly one download, of item i, and leaves the N-1 other items
\* in their original relative order.
C24_HandlerDownloadsOne ==
    \A index \in 0 .. Len(dash.processedResults) - 1 :
        OneDownload(downloadOutput(World, index), dash.processedResults, index)

C24_StepDownloadsOne ==
    \A i \in DOMAIN hist'.log :
        /\ hist'.log[i].e = "downloadOutput"
        /\ hist'.log[i].arg \in 0 .. Len(dash.processedResults) - 1
        => /\ OneDownload([d |-> dash', log |-> hist'.log],
                          dash.processedResults, hist'.log[i].arg)
           /\ Len(sys'.downloads) = Len(sys.downloads) + 1

OutOfRange(results, index) == index >= Len(results) \/ index < 0

\* C25: downloadOutput(index) with an out-of-range index (at or beyond the
\* length of the held collection, any index into an empty collection, or a
\* negative index) is a no-op: no download is triggered, no error is raised
\* and processedResults is unchanged.
C25_StepIsNoOp ==
    \A i \in DOMAIN hist'.log :
        /\ hist'.log[i].e = "downloadOutput"
        /\ OutOfRange(dash.processedResults, hist'.log[i].arg)
        => /\ ~Has(hist'.log, "download")
           /\ ~Has(hist'.log, "TypeError")
           /\ sys'.downloads = sys.downloads
           /\ dash'.processedResults = dash.processedResults

C25_OutOfRangeNoOp == [][C25_StepIsNoOp]_vars

DownloadsOf(call) == {i \in DOMAIN sys.downloads : sys.downloads[i].call = call}

\* a downloadAll call sets one timer per held item, in collection order, and
\* touches nothing else; on an empty collection it sets none
C26_CallSchedules ==
    Has(hist'.log, "downloadAll") =>
        LET results == dash.processedResults
            set == SubSeq(sys'.timers, Len(sys.timers) + 1, Len(sys'.timers))
        IN /\ dash' = dash
           /\ sys'.downloads = sys.downloads
           /\ SubSeq(sys'.timers, 1, Len(sys.timers)) = sys.timers
           /\ Len(set) = Len(results)
           /\ \A k \in DOMAIN set : /\ set[k].kind = "download"
                                     /\ set[k].result = results[k]
                                     /\ set[k].index = k - 1

\* the timer that runs in this step, when it is one of call's
Fired(call, kind) ==
    {k \in DOMAIN sys.timers :
        /\ Runnable(sys, k)
        /\ sys.timers[k].call = call
        /\ sys.timers[k].kind = kind
        /\ sys'.timers = timerFires(World, k).s.timers}

\* a download of a call comes after the downloads of the earlier items of
\* the call and at least the stagger after each of them
C26_DownloadsStaggered ==
    \A i \in DOMAIN hist'.log :
        hist'.log[i].e = "timer" =>
            \A k \in Fired(hist'.log[i].arg, "download") :
                /\ Cardinality(DownloadsOf(sys.timers[k].call)) = sys.timers[k].index
                /\ \A j \in DownloadsOf(sys.timers[k].call) :
                        sys.now - sys.downloads[j].at >= STAGGER_MS

\* the collection is emptied by a call's last timer only, after every item
\* the call captured was downloaded
C26_ClearedAfterLast ==
    \A i \in DOMAIN hist'.log :
        hist'.log[i].e = "timer" =>
            /\ \A k \in Fired(hist'.log[i].arg, "clear") :
                    Cardinality(DownloadsOf(sys.timers[k].call)) = sys.timers[k].index + 1
            /\ Fired(hist'.log[i].arg, "clear") = {} =>
                    dash'.processedResults = dash.processedResults

\* C26: downloadAll() on an N-item held collection triggers exactly N
\* downloads, one per held item in collection order, consecutive ones at
\* least 500 ms apart, and the collection is cleared only after the N-th
\* download; on an empty collection it schedules nothing and changes nothing.
C26_StaggeredDownloads ==
    [][C26_CallSchedules /\ C26_DownloadsStaggered /\ C26_ClearedAfterLast]_vars

\* C27: download is one-shot per item: in every interleaving of
\* downloadOutput and downloadAll calls, a downloadOutput or a second
\* downloadAll while a stagger is pending included, each held result item
\* is materialized into a download at most once.
C27_OneShot ==
    \A i, j \in DOMAIN sys.downloads :
        /\ sys.downloads[i].result = sys.downloads[j].result
        /\ sys.downloads[i].of = sys.downloads[j].of
        => i = j

IdleMs == sys.now - dash.lastActivityTime

\* C28: when no activity event occurs for the idle bound (300 s), forced
\* logout is triggered at the first one-second poll at which the elapsed
\* idle time is at least 300 s, and exactly one router navigation results
\* from that idle expiry; no later poll triggers another.
C28_PollStep ==
    Has(hist'.log, "idlePoll") =>
        /\ Has(hist'.log, "autoLogout") <=> IdleMs >= IDLE_TIMEOUT_SECONDS * 1000
        /\ Has(hist'.log, "autoLogout") =>
                /\ Len(sys'.navigations) = Len(sys.navigations) + 1
                /\ ~dash'.idleTimerSubscription
        /\ Len(sys.navigations) = 0

C28_ForcedLogoutOnce == [][C28_PollStep]_vars

\* C29: no forced logout occurs at an idle poll at which less than 300 s
\* have elapsed since the most recent activity event, and every activity
\* event sets the idle clock to the current instant.
C29_HandlersKeepSession ==
    /\ onUserActivity(World).d.lastActivityTime = sys.now
    /\ IdleMs < IDLE_TIMEOUT_SECONDS * 1000 =>
            /\ ~Has(idlePoll(World).log, "autoLogout")
            /\ idlePoll(World).s.navigations = sys.navigations
            /\ idlePoll(World).s.authenticated = sys.authenticated
    /\ Entry("autoLogout") # {} => IdleMs >= IDLE_TIMEOUT_SECONDS * 1000

C29_StepKeepsSession ==
    /\ Has(hist'.log, "onUserActivity") =>
            /\ dash'.lastActivityTime = sys.now
            /\ sys' = sys
    /\ Has(hist'.log, "idlePoll") /\ IdleMs < IDLE_TIMEOUT_SECONDS * 1000 =>
            /\ ~Has(hist'.log, "autoLogout")
            /\ sys'.view = sys.view
            /\ sys'.navigations = sys.navigations
            /\ sys'.authenticated = sys.authenticated
            /\ dash'.idleTimerSubscription

C29_NoLogoutWhileActive ==
    [](C29_HandlersKeepSession) /\ [][C29_StepKeepsSession]_vars

\* the monitor has just polled 300 s or more after it was started and the
\* session goes on, because the user was active in between
C29_Witness ==
    /\ Entry("idlePoll") # {}
    /\ sys.now >= IDLE_TIMEOUT_SECONDS * 1000
    /\ dash.lastActivityTime > 0
    /\ sys.view = "active"
    /\ sys.authenticated
    /\ dash.idleTimerSubscription

Before(a, b) ==
    \A i \in Entry(a), j \in Entry(b) : i < j

\* C30: when the idle monitor fires while a request is in flight, the
\* request is cancelled and the countdown stopped, then the session
\* credentials are cleared, then the navigation to the login entry point is
\* issued; no navigation comes before the cancellation or before the
\* clearing of the credentials.
C30_ForcedLogoutOrder ==
    \A i \in Entry("autoLogout") :
        hist.log[i].arg # NoRequest =>
            /\ Entry("unsubscribe") # {}
            /\ Entry("stopCountdown") # {}
            /\ Entry("clearAuthState") # {}
            /\ Entry("navigate") # {}
            /\ Before("unsubscribe", "clearAuthState")
            /\ Before("stopCountdown", "clearAuthState")
            /\ Before("unsubscribe", "navigate")
            /\ Before("clearAuthState", "navigate")
            /\ reqs[hist.log[i].arg].closed
            /\ dash.currentRequest = NoRequest
            /\ ~dash.countdownSubscription
            /\ ~sys.authenticated

\* the monitor has just fired with a request in flight
C30_Witness ==
    /\ \E i \in Entry("autoLogout") : hist.log[i].arg # NoRequest
    /\ Entry("unsubscribe") # {}
    /\ sys.navigations # <<>>

\* C35: while the dashboard is alive and no logout has happened, isProcessing
\* is true if and only if a countdown is armed, and if and only if a request
\* subscription is held: every exit from the flight disarms the countdown
\* and drops the request in the step in which it clears isProcessing.
C35_ProcessingIffArmed ==
    sys.view = "active" =>
        /\ dash.isProcessing <=> dash.countdownSubscription
        /\ dash.isProcessing <=> dash.currentRequest # NoRequest
        /\ dash.currentRequest # NoRequest => ~reqs[dash.currentRequest].closed

\* the countdown of a request has just expired and the three are off together
C35_Witness ==
    /\ Entry("timeout") # {}
    /\ sys.view = "active"
    /\ ~dash.isProcessing
    /\ ~dash.countdownSubscription
    /\ dash.currentRequest = NoRequest

\* C37: in every reachable state 1 <= remainingSeconds <= 60, and
\* remainingSeconds = 60 whenever isProcessing is false.
C37_CountdownRange ==
    /\ dash.remainingSeconds >= 1
    /\ dash.remainingSeconds <= TIMEOUT_SECONDS
    /\ ~dash.isProcessing => dash.remainingSeconds = TIMEOUT_SECONDS

\* the countdown shows its last second
C37_Witness ==
    /\ dash.isProcessing
    /\ dash.countdownSubscription
    /\ dash.remainingSeconds = 1

\* C38: in every reachable state, isTimeoutError = true implies that
\* errorMessage is non-null and isProcessing is false.
C38_TimeoutFlagHasMessage ==
    dash.isTimeoutError => dash.errorMessage # NoMessage /\ ~dash.isProcessing

\* the timeout flag is up, by the countdown or by the transport
C38_Witness ==
    /\ dash.isTimeoutError
    /\ dash.errorMessage # NoMessage
    /\ Entry("timeout") # {} \/ Entry("error") # {}

\* this step is a failed or a timed-out outcome of the request in flight
FailedOutcome == Has(hist'.log, "timeout") \/ Has(hist'.log, "error")

InputsIntact ==
    /\ dash'.selectedTransactionType = dash.selectedTransactionType
    /\ dash'.selectedOrderType = dash.selectedOrderType
    /\ dash'.selectedFormat = dash.selectedFormat
    /\ dash'.selectedResponseType = dash.selectedResponseType
    /\ dash'.selectedFile = dash.selectedFile
    /\ dash'.processedResults = dash.processedResults
    /\ CanSubmit(dash) => CanSubmit(dash') /\ ~dash'.isProcessing

\* C40: a failed and a timed-out outcome leave the user's inputs intact for
\* a retry: handleRequestError and handleCountdownTimeout change none of the
\* four selections, the staged file or processedResults, so processFile can
\* be issued again without staging the file again.
C40_RetryInputsIntact == [][FailedOutcome => InputsIntact]_vars

\* the request has just failed or timed out, the file is still staged and
\* the form can be submitted as it is
C40_Witness ==
    /\ Entry("timeout") # {} \/ Entry("error") # {}
    /\ dash.errorMessage # NoMessage
    /\ dash.selectedFile # NoFile
    /\ ~dash.isProcessing
    /\ CanSubmit(dash)

\* C36: once a request is in flight and no further processFile, cancel,
\* logout or teardown occurs, the component returns to idle (isProcessing
\* false) after at most 60 countdown ticks, whether or not the network ever
\* settles: under fair ticking it never stays in flight forever.
C36_TicksLeft ==
    dash.isProcessing =>
        /\ dash.countdownSubscription
        /\ hist.ticks + dash.remainingSeconds = TIMEOUT_SECONDS

C36_BoundedFlight ==
    /\ [](C36_TicksLeft)
    /\ dash.isProcessing ~> ~dash.isProcessing

\* the sixtieth tick has just ended a flight whose network operation has not
\* settled
C36_Witness ==
    /\ \E i \in Entry("expiredOnTick") : hist.log[i].arg = TIMEOUT_SECONDS
    /\ ~dash.isProcessing
    /\ \E id \in DOMAIN reqs : reqs[id].http = "outstanding" \/ reqs[id].reader = "reading"

\* C33: after the teardown of the view (ngOnDestroy) no timer callback
\* started by the component mutates component state: every timer the
\* component started, the staggered download timers and the deferred clear
\* of downloadAll included, is released at teardown.
C33_Released ==
    sys.view = "destroyed" =>
        /\ ~dash.idleTimerSubscription
        /\ ~dash.countdownSubscription
        /\ sys.timers = <<>>

C33_NoStaleCallback == sys.view = "destroyed" => dash' = dash

C33_TimersReleasedAtTeardown ==
    [](C33_Released) /\ [][C33_NoStaleCallback]_vars

\* the request that delivered the held results
HeldFrom == Len(reqs)

\* C39: the deferred clear of downloadAll discards only items that
\* downloadAll downloaded: results delivered by a request that was started
\* and succeeded between the downloadAll call and its deferred clear are not
\* removed from processedResults without having been downloaded.
C39_ClearStep ==
    Has(hist'.log, "clear") =>
        \A k \in DOMAIN dash.processedResults :
            \E j \in DOMAIN sys.downloads :
                /\ sys.downloads[j].result = dash.processedResults[k]
                /\ sys.downloads[j].of = HeldFrom

C39_ClearsOnlyDownloaded == [][C39_ClearStep]_vars

\* the navigations the router was asked for in this step
Issued ==
    SubSeq(sys'.navigations, Len(sys.navigations) + 1, Len(sys'.navigations))

SESSION_EXPIRED_URL == "/login?sessionExpired=true"

\* C31: every navigation issued as part of a forced (idle) logout carries
\* the sessionExpired indicator, and no navigation issued as part of a manual
\* logout carries it.
C31_Step ==
    /\ Has(hist'.log, "autoLogout") =>
            \A i \in DOMAIN Issued : Issued[i] = SESSION_EXPIRED_URL
    /\ Has(hist'.log, "logout") =>
            \A i \in DOMAIN Issued : Issued[i] # SESSION_EXPIRED_URL

C31_LogoutsDistinguishable == [][C31_Step]_vars

\* C32: after logout(), after autoLogout() and after ngOnDestroy() the idle
\* timer and the countdown are released and the held request is
\* unsubscribed: no idle poll, no autoLogout, no countdown tick and no
\* outcome handler of a request runs afterwards.
C32_Released ==
    ~Active =>
        /\ ~dash.idleTimerSubscription
        /\ ~dash.countdownSubscription
        /\ dash.currentRequest = NoRequest
        /\ OpenRequests = {}

C32_NothingRuns ==
    ~Active =>
        /\ \A e \in {"idlePoll", "autoLogout", "timeout", "next", "error"} :
               ~Has(hist'.log, e)
        /\ hist'.ticks = hist.ticks
        /\ dash'.remainingSeconds = dash.remainingSeconds
        /\ \A id \in DOMAIN reqs : reqs'[id].outcomes = reqs[id].outcomes

IdleClock == <<dash.lastActivityTime, dash.idleTimerSubscription>>

\* the state of the request lifecycle
Lifecycle ==
    <<dash.isProcessing, dash.remainingSeconds, dash.currentUUID,
      dash.countdownSubscription, dash.currentRequest, dash.errorMessage,
      dash.processedResults, OpenRequests>>

\* this step is an event of the request lifecycle: processFile, a success,
\* a failure, a countdown tick or timeout, or cancelRequest
LifecycleEvent ==
    \/ \E e \in {"processFile", "http.post", "next", "error", "ignored",
                  "timeout", "cancelRequest"} : Has(hist'.log, e)
    \/ hist'.ticks = hist.ticks + 1

\* this step is an activity event or an idle poll that does not expire
IdleEvent ==
    \/ Has(hist'.log, "onUserActivity")
    \/ Has(hist'.log, "idlePoll") /\ ~Has(hist'.log, "autoLogout")

\* C34: the idle clock and the request lifecycle are independent except for
\* cancel-on-logout: no event of the request lifecycle changes
\* lastActivityTime or the idle timer, and no activity event or
\* non-expiring idle poll changes isProcessing, remainingSeconds,
\* currentUUID, the countdown, the held request, errorMessage or
\* processedResults.
C34_Step ==
    /\ LifecycleEvent => IdleClock' = IdleClock
    /\ IdleEvent => Lifecycle' = Lifecycle

C34_Independent == [][C34_Step]_vars

\* an activity event arrived while a request was in flight and its countdown
\* had begun to run down
C34_Witness ==
    /\ Has(hist.log, "onUserActivity")
    /\ dash.lastActivityTime > 0
    /\ dash.isProcessing
    /\ dash.countdownSubscription
    /\ dash.remainingSeconds < TIMEOUT_SECONDS
====
